---- MODULE Spec2Model ----
(***************************************************************************)
(* Model of python/ray/util/client/server/proxier.py: the ProxyManager     *)
(* (record map, port pool, manager lock, reaper thread, atexit hook), the  *)
(* unary RayletServicerProxy and the streaming Data and Logstream          *)
(* servicers.                                                              *)
(* The platform is one with psutil (sys.platform != "win32").              *)
(***************************************************************************)
EXTENDS Integers, Sequences, FiniteSets, TLC

\* ---------------------------------------------------------------- bounds
\* Servicer threads of the gRPC worker pool: the calls served at a time.
MaxThreads == 2
\* SpecificServer objects created in a run: the start_specific_server calls.
MaxRecords == 3
\* Size of the port range (the program's range holds 1000 ports).
NumPorts == 2
\* Longest inbound data stream, first message included.
MaxMsgs == 2
\* Encoded job configs a client may send: 0 is the empty byte string,
\* k > 0 is pickle.dumps of JobConfig number k - 1.
MaxCfg == 1

\* ------------------------------------------------------------- constants
MIN_SPECIFIC_SERVER_PORT == 23000
MAX_SPECIFIC_SERVER_PORT == MIN_SPECIFIC_SERVER_PORT + NumPorts
\* Logstream: for i in range(5)
LOGSTREAM_ATTEMPTS == 5

PortRange == MIN_SPECIFIC_SERVER_PORT .. (MAX_SPECIFIC_SERVER_PORT - 1)
Threads == 1 .. MaxThreads
RecordIds == 1 .. MaxRecords
ClientIds == {"A", "B"}
\* invocation_metadata(): no client_id key, or a client_id value (maybe empty).
Metadata == {<<>>} \cup {<<c>> : c \in ClientIds \cup {""}}

Methods == {"Init", "PrepRuntimeEnv", "KVPut", "KVGet", "KVDel", "KVList",
            "KVExists", "ClusterInfo", "Terminate", "GetObject", "PutObject",
            "WaitObject", "Schedule"}

VARIABLES
    servers,          \* ProxyManager.servers: insertion-ordered dict, as a
                      \* sequence of [cid, rid] items
    server_lock,      \* ProxyManager.server_lock: its holder, or Unlocked
    free_ports,       \* ProxyManager._free_ports
    records,          \* every SpecificServer object ever created, by id
    nrec,             \* number of SpecificServer objects created
    th,               \* the servicer threads: position and locals
    request_iterator, \* per stream: the inbound messages not yet consumed
    queue,            \* per stream: the splice queue
    backend_in,       \* per stream: what the backend read from the queue
    backend_eof,      \* per stream: the backend read the queue to its sentinel
    fwd_thread,       \* per stream: the forwarder thread
    check_pc,         \* the reaper thread (_check_processes)
    check_list,       \* the reaper's list(self.servers.items())
    exit_pc,          \* the atexit hook (_cleanup): not run yet, or how it ended
    killed            \* the SpecificServer objects whose process got kill()

vars == <<servers, server_lock, free_ports, records, nrec, th,
          request_iterator, queue, backend_in, backend_eof, fwd_thread,
          check_pc, check_list, exit_pc, killed>>

mgr == <<servers, server_lock, free_ports, records, nrec>>
streams == <<request_iterator, queue, backend_in, backend_eof, fwd_thread>>
reaper == <<check_pc, check_list>>
hook == <<exit_pc, killed>>

\* ------------------------------------------------------------ data types
None == 0
\* Holders of the manager lock: a servicer thread, or the reaper thread.
Unlocked == -1
CheckThread == 0
Sentinel == [type |-> "None", req_id |-> 0, job_config |-> 0, other |-> 0]

NoReq == [method |-> "none", type |-> "none"]
NoCall == [chan |-> None, method |-> "none", request |-> NoReq, client_id |-> ""]

NoRecord == [port |-> 0, future |-> "unset", proc |-> "none"]

\* A worker's locals: pc, the call (kind, cid, req, input), the locals of
\* start_specific_server (num_ports, port, mine: its record, ret: its
\* result), of get_channel (server, chan; gc counts the calls), and what the
\* call gave: the exception that left it, the status code, the backend call
\* made (sent) and the response.
IdleThread == [pc |-> "idle", kind |-> "none", cid |-> "", req |-> NoReq,
               input |-> <<>>, job_config |-> 0,
               num_ports |-> None, port |-> None, mine |-> None, ret |-> "none",
               server |-> None, chan |-> None, gc |-> 0,
               error |-> "none", status |-> "OK", sent |-> NoCall,
               resp |-> "none"]

\* ---------------------------------------------------------- dict helpers
RECURSIVE DictGet(_, _)
DictGet(d, k) ==
    IF d = <<>> THEN None
    ELSE IF Head(d).cid = k THEN Head(d).rid ELSE DictGet(Tail(d), k)

Keys(d) == {d[i].cid : i \in 1 .. Len(d)}

\* d[k] = v: an existing key keeps its place, a new key goes last.
DictSet(d, k, v) ==
    IF k \in Keys(d)
    THEN [i \in 1 .. Len(d) |-> IF d[i].cid = k THEN [cid |-> k, rid |-> v] ELSE d[i]]
    ELSE Append(d, [cid |-> k, rid |-> v])

\* del d[k]
DictDel(d, k) == SelectSeq(d, LAMBDA e : e.cid # k)

SeqToSet(s) == {s[i] : i \in 1 .. Len(s)}

\* ------------------------------------------------------- pure functions
\* metadata.get("client_id") or ""
get_client_id_from_context(md) == IF md = <<>> THEN "" ELSE md[1]

\* The status _get_client_id_from_context leaves on the context.
client_id_status(md) ==
    IF get_client_id_from_context(md) = "" THEN "INVALID_ARGUMENT" ELSE "OK"

\* pickle.loads / pickle.dumps on the modelled byte strings and JobConfigs:
\* JobConfig number j is encoded as the byte string j + 1; 0 is b"".
DefaultJobConfig == 0
pickle_loads(b) == b - 1
pickle_dumps(j) == j + 1
ray_client_server_env_prep(job_config) == job_config

\* The loop of _get_unused_port over the ports in `free`, `n` iterations
\* left; a bind fails on the ports in `busy`.  port = None: the loop ran out.
RECURSIVE ProbeLoop(_, _, _)
ProbeLoop(free, n, busy) ==
    IF n = 0 THEN [port |-> None, free |-> free]
    ELSE LET port == Head(free)
             rest == Tail(free)
         IN  IF port \in busy
             THEN ProbeLoop(Append(rest, port), n - 1, busy)
             ELSE [port |-> port, free |-> rest]

\* Mutant: the port handed out is not taken off the free list.
get_unused_port_nopop(free, busy) ==
    [port |-> ProbeLoop(free, Len(free), busy).port, free |-> free]

\* Mutant: a port whose bind fails is dropped instead of moved to the tail.
RECURSIVE ProbeLoopDrop(_, _, _)
ProbeLoopDrop(free, n, busy) ==
    IF n = 0 THEN [port |-> None, free |-> free]
    ELSE IF Head(free) \in busy
    THEN ProbeLoopDrop(Tail(free), n - 1, busy)
    ELSE [port |-> Head(free), free |-> Tail(free)]

get_unused_port_drop(free, busy) == ProbeLoopDrop(free, Len(free), busy)

get_unused_port(free, busy) == ProbeLoop(free, Len(free), busy)

\* prepare_runtime_init_req on the first message: the rewritten message and
\* the job config, or an AssertionError.
prepare_runtime_init_req(init_req) ==
    IF init_req.type # "init"
    THEN [ok |-> FALSE, req |-> init_req, job_config |-> DefaultJobConfig]
    ELSE LET job_config == IF init_req.job_config # 0
                           THEN pickle_loads(init_req.job_config)
                           ELSE DefaultJobConfig
             new_job_config == ray_client_server_env_prep(job_config)
         IN  [ok |-> TRUE,
              \* init.CopyFrom(InitRequest(job_config=...)): the init
              \* sub-message is replaced whole, its other fields reset.
              req |-> [init_req EXCEPT !.job_config = pickle_dumps(new_job_config),
                                       !.other = 0],
              job_config |-> new_job_config]

\* The backend method each servicer method hands to _call_inner_function.
BackendMethod(m) == IF m = "KVDel" THEN "KVGet" ELSE m

\* ------------------------------------------------------------- inputs
InitMsg(c, o) == [type |-> "init", req_id |-> 1, job_config |-> c, other |-> o]
DataMsg(i) == [type |-> "data", req_id |-> i, job_config |-> 0, other |-> 0]

FirstMsgs == {InitMsg(c, o) : c \in 0 .. MaxCfg, o \in {0, 1}} \cup {DataMsg(1)}
\* An inbound stream: a first message, then data messages numbered 2, 3, ...
StreamOf(m0, n) == [i \in 1 .. n |-> IF i = 1 THEN m0 ELSE DataMsg(i)]
StreamInputs == {StreamOf(m0, n) : m0 \in FirstMsgs, n \in 1 .. MaxMsgs}
\* The streams of the manager-level specifications: a valid handshake alone.
HandshakeInputs == {StreamOf(InitMsg(0, 0), 1)}
ValidMetadata == {<<c>> : c \in ClientIds}

Requests == {[method |-> m, type |-> "none"] : m \in Methods \ {"ClusterInfo"}}
            \cup {[method |-> "ClusterInfo", type |-> ty] : ty \in {"PING", "NODES"}}

\* ---------------------------------------------------------------- Init
Init ==
    /\ servers = <<>>
    /\ server_lock = Unlocked
    /\ free_ports = [i \in 1 .. NumPorts |-> MIN_SPECIFIC_SERVER_PORT + i - 1]
    /\ records = [r \in RecordIds |-> NoRecord]
    /\ nrec = 0
    /\ th = [t \in Threads |-> IdleThread]
    /\ request_iterator = [t \in Threads |-> <<>>]
    /\ queue = [t \in Threads |-> <<>>]
    /\ backend_in = [t \in Threads |-> <<>>]
    /\ backend_eof = [t \in Threads |-> FALSE]
    /\ fwd_thread = [t \in Threads |-> "none"]
    /\ check_pc = "sleep"
    /\ check_list = <<>>
    /\ exit_pc = "running"
    /\ killed = {}

\* ------------------------------------------ ProxyManager: start a backend
\* Mutant: the variant of the first message is not asserted.
DatapathBeginNoAssert(t, md, msgs) ==
    /\ th[t].pc = "idle"
    /\ LET client_id == get_client_id_from_context(md)
           first == prepare_runtime_init_req([Head(msgs) EXCEPT !.type = "init"])
           me == [th[t] EXCEPT !.kind = "data", !.cid = client_id,
                               !.input = msgs, !.status = client_id_status(md)]
       IN  IF client_id = ""
           THEN /\ th' = [th EXCEPT ![t] = [me EXCEPT !.pc = "done"]]
                /\ request_iterator' = [request_iterator EXCEPT ![t] = msgs]
                /\ UNCHANGED queue
           ELSE /\ th' = [th EXCEPT ![t] = [me EXCEPT !.pc = "start_lock",
                                                      !.job_config = first.job_config]]
                /\ request_iterator' = [request_iterator EXCEPT ![t] = Tail(msgs)]
                /\ queue' = [queue EXCEPT ![t] = <<first.req>>]
    /\ UNCHANGED <<mgr, backend_in, backend_eof, fwd_thread, reaper, hook>>

\* Datapath up to the call of start_specific_server.
DatapathBegin(t, md, msgs) ==
    /\ th[t].pc = "idle"
    /\ LET client_id == get_client_id_from_context(md)
           first == prepare_runtime_init_req(Head(msgs))
           me == [th[t] EXCEPT !.kind = "data", !.cid = client_id,
                               !.input = msgs, !.status = client_id_status(md)]
       IN  IF client_id = ""
           THEN /\ th' = [th EXCEPT ![t] = [me EXCEPT !.pc = "done"]]
                /\ request_iterator' = [request_iterator EXCEPT ![t] = msgs]
                /\ UNCHANGED queue
           ELSE IF ~first.ok
           THEN /\ th' = [th EXCEPT ![t] = [me EXCEPT !.pc = "done",
                                                      !.status = "UNKNOWN",
                                                      !.error = "AssertionError"]]
                /\ request_iterator' = [request_iterator EXCEPT ![t] = Tail(msgs)]
                /\ UNCHANGED queue
           ELSE /\ th' = [th EXCEPT ![t] = [me EXCEPT !.pc = "start_lock",
                                                      !.job_config = first.job_config]]
                /\ request_iterator' = [request_iterator EXCEPT ![t] = Tail(msgs)]
                /\ queue' = [queue EXCEPT ![t] = <<first.req>>]
    /\ UNCHANGED <<mgr, backend_in, backend_eof, fwd_thread, reaper, hook>>

\* start_specific_server: take the lock and call _get_unused_port.
StartAcquirePort(t, busy) ==
    /\ th[t].pc = "start_lock"
    /\ server_lock = Unlocked
    /\ nrec < MaxRecords
    /\ LET r == get_unused_port(free_ports, busy)
       IN  /\ free_ports' = r.free
           /\ IF r.port = None
              THEN \* RuntimeError leaves the with block and the servicer
                   /\ server_lock' = Unlocked
                   /\ th' = [th EXCEPT ![t].pc = "done", ![t].status = "UNKNOWN",
                                       ![t].error = "RuntimeError",
                                       ![t].num_ports = Len(free_ports)]
              ELSE /\ server_lock' = t
                   /\ th' = [th EXCEPT ![t].pc = "install", ![t].port = r.port,
                                       ![t].num_ports = Len(free_ports)]
    /\ UNCHANGED <<servers, records, nrec, streams, reaper, hook>>

\* start_specific_server: create the record, install it, release the lock.
StartInstall(t) ==
    /\ th[t].pc = "install"
    /\ server_lock = t
    /\ nrec' = nrec + 1
    /\ records' = [records EXCEPT ![nrec + 1] =
                      [port |-> th[t].port, future |-> "unset", proc |-> "none"]]
    /\ servers' = DictSet(servers, th[t].cid, nrec + 1)
    /\ server_lock' = Unlocked
    /\ th' = [th EXCEPT ![t].pc = "spawn", ![t].mine = nrec + 1]
    /\ UNCHANGED <<free_ports, streams, reaper, hook>>

\* start_ray_client_server returns the handle of the shim process.
StartSpawn(t) ==
    /\ th[t].pc = "spawn"
    /\ records' = [records EXCEPT ![th[t].mine].proc = "shim"]
    /\ th' = [th EXCEPT ![t].pc = "poll"]
    /\ UNCHANGED <<servers, server_lock, free_ports, nrec, streams, reaper, hook>>

\* start_ray_client_server (or _get_session_dir) raises: nothing catches it.
StartSpawnFails(t) ==
    /\ th[t].pc = "spawn"
    /\ th' = [th EXCEPT ![t].pc = "done", ![t].status = "UNKNOWN",
                        ![t].error = "LaunchError"]
    /\ UNCHANGED <<mgr, streams, reaper, hook>>

\* Mutant: the future is resolved without waiting for the fence.
StartPollNoFence(t) ==
    /\ th[t].pc = "poll"
    /\ records[th[t].mine].proc \in {"shim", "exited", "server"}
    /\ records' = [records EXCEPT ![th[t].mine].future = "set"]
    /\ th' = [th EXCEPT ![t].pc = "ret"]
    /\ UNCHANGED <<servers, server_lock, free_ports, nrec, streams, reaper, hook>>

\* The polling loop ends at the poll that finds the child exited or exec'd
\* into the server (cmdline longer than 3, cmdline[2] the server module); it
\* sleeps otherwise.  Then handle_ready.set_result(proc).
StartPoll(t) ==
    /\ th[t].pc = "poll"
    /\ records[th[t].mine].proc \in {"exited", "server"}
    /\ records' = [records EXCEPT ![th[t].mine].future = "set"]
    /\ th' = [th EXCEPT ![t].pc = "ret"]
    /\ UNCHANGED <<servers, server_lock, free_ports, nrec, streams, reaper, hook>>

\* return proc.process.poll() is None; then Datapath's branch on the result.
StartReturn(t) ==
    /\ th[t].pc = "ret"
    /\ IF records[th[t].mine].proc = "exited"
       THEN th' = [th EXCEPT ![t].pc = "done", ![t].ret = "False",
                           ![t].status = "ABORTED"]
       ELSE th' = [th EXCEPT ![t].pc = "get_server", ![t].ret = "True"]
    /\ UNCHANGED <<mgr, streams, reaper, hook>>

\* ------------------------------------------------- the child processes
\* The shim exec's into the server: cmdline[2] == "ray.util.client.server".
ChildExec(r) ==
    /\ records[r].proc = "shim"
    /\ records' = [records EXCEPT ![r].proc = "server"]
    /\ UNCHANGED <<servers, server_lock, free_ports, nrec, th, streams, reaper, hook>>

\* The child exits: proc.process.poll() is not None from now on.
ChildExit(r) ==
    /\ records[r].proc \in {"shim", "server"}
    /\ records' = [records EXCEPT ![r].proc = "exited"]
    /\ UNCHANGED <<servers, server_lock, free_ports, nrec, th, streams, reaper, hook>>

\* ------------------------------------------------------------ the reaper
\* The for loop of _check_processes over `list`, the items still to visit,
\* run until it ends or blocks: process_handle() blocks on a record whose
\* future is unresolved; an exited child's record is deleted and its port
\* appended to the pool.  `rest` is what is left to visit when it blocks.
\* Mutant: the test of poll_result is inverted.
RECURSIVE CheckLoopInverted(_, _, _)
CheckLoopInverted(list, srv, free) ==
    IF list = <<>> THEN [rest |-> <<>>, servers |-> srv, free |-> free]
    ELSE LET client_id == Head(list).cid
             specific_server == records[Head(list).rid]
         IN  IF specific_server.future # "set"
             THEN [rest |-> list, servers |-> srv, free |-> free]
             ELSE IF specific_server.proc # "exited"
             THEN CheckLoopInverted(Tail(list), DictDel(srv, client_id),
                                    Append(free, specific_server.port))
             ELSE CheckLoopInverted(Tail(list), srv, free)

RECURSIVE CheckLoop(_, _, _)
CheckLoop(list, srv, free) ==
    IF list = <<>> THEN [rest |-> <<>>, servers |-> srv, free |-> free]
    ELSE LET client_id == Head(list).cid
             specific_server == records[Head(list).rid]
         IN  IF specific_server.future # "set"
             THEN [rest |-> list, servers |-> srv, free |-> free]
             ELSE IF specific_server.proc = "exited"
             THEN CheckLoop(Tail(list), DictDel(srv, client_id),
                            Append(free, specific_server.port))
             ELSE CheckLoop(Tail(list), srv, free)

\* The reaper goes on from `list`: to the end of the loop, where it releases
\* the lock and sleeps, or to the next record it blocks on, lock held.
CheckRun(list) ==
    LET r == CheckLoop(list, servers, free_ports)
    IN  /\ servers' = r.servers
        /\ free_ports' = r.free
        /\ check_list' = r.rest
        /\ server_lock' = IF r.rest = <<>> THEN Unlocked ELSE CheckThread
        /\ check_pc' = IF r.rest = <<>> THEN "sleep" ELSE "sweep"
        /\ UNCHANGED <<records, nrec, th, streams, hook>>

\* _check_processes wakes up: take the lock, list(self.servers.items()).
CheckAcquire ==
    /\ check_pc = "sleep"
    /\ server_lock = Unlocked
    /\ CheckRun(servers)

\* The future the reaper blocks on is resolved: the loop goes on.
CheckResume ==
    /\ check_pc = "sweep"
    /\ server_lock = CheckThread
    /\ records[Head(check_list).rid].future = "set"
    /\ CheckRun(check_list)

\* ------------------------------------------------------- the atexit hook
\* The for loop of _cleanup over `values`, the records of the map still to
\* visit.  wait_ready(0.1) on an unresolved future raises
\* concurrent.futures.TimeoutError, which `except TimeoutError` catches only
\* where the two are one class (Python 3.11 on): `caught`.  Otherwise the
\* exception leaves the loop.  A resolved record's process gets kill().
RECURSIVE CleanupLoop(_, _, _)
CleanupLoop(values, caught, kills) ==
    IF values = <<>> THEN [killed |-> kills, raised |-> FALSE]
    ELSE LET server == Head(values).rid
         IN  IF records[server].future # "set"
             THEN IF caught
                  THEN CleanupLoop(Tail(values), caught, kills)
                  ELSE [killed |-> kills, raised |-> TRUE]
             ELSE CleanupLoop(Tail(values), caught, kills \cup {server})

\* The interpreter exits: _cleanup runs, without the lock, over
\* self.servers.values().
Cleanup(caught) ==
    /\ exit_pc = "running"
    /\ LET r == CleanupLoop(servers, caught, {})
       IN  /\ killed' = r.killed
           /\ exit_pc' = IF r.raised THEN "raised" ELSE "done"
           /\ records' = [q \in RecordIds |->
                             IF q \in r.killed
                             THEN [records[q] EXCEPT !.proc = "exited"]
                             ELSE records[q]]
    /\ UNCHANGED <<servers, server_lock, free_ports, nrec, th, streams, reaper>>

\* ------------------------------------------------------------ get_channel
\* Mutant: Datapath does not test the channel for None.
AfterGetChannelNoCheck(me, chan) ==
    IF me.kind = "unary"
    THEN IF chan = None
         THEN [me EXCEPT !.pc = "done", !.chan = None, !.status = "NOT_FOUND"]
         ELSE [me EXCEPT !.pc = "done", !.chan = chan, !.resp = "backend",
                         !.sent = [chan |-> chan,
                                   method |-> IF me.req.method = "KVDel"
                                              THEN "KVGet" ELSE me.req.method,
                                   request |-> me.req, client_id |-> me.cid]]
    ELSE [me EXCEPT !.pc = "relay", !.chan = chan,
                    !.sent = [chan |-> chan, method |-> "Datapath",
                              request |-> NoReq, client_id |-> me.cid]]

\* Mutant: the Logstream loop allows one attempt more.
AfterGetChannelSix(me, chan) ==
    IF chan = None
    THEN IF me.kind = "log" /\ me.gc <= LOGSTREAM_ATTEMPTS
         THEN [me EXCEPT !.pc = "get_server", !.chan = None]
         ELSE [me EXCEPT !.pc = "done", !.chan = None, !.status = "NOT_FOUND"]
    ELSE IF me.kind = "unary"
    THEN [me EXCEPT !.pc = "done", !.chan = chan, !.resp = "backend",
                    !.sent = [chan |-> chan,
                              method |-> IF me.req.method = "KVDel"
                                         THEN "KVGet" ELSE me.req.method,
                              request |-> me.req, client_id |-> me.cid]]
    ELSE [me EXCEPT !.pc = "relay", !.chan = chan,
                    !.sent = [chan |-> chan,
                              method |-> IF me.kind = "data" THEN "Datapath"
                                         ELSE "Logstream",
                              request |-> NoReq, client_id |-> me.cid]]

\* What the caller of get_channel does with the result `chan`.
AfterGetChannel(me, chan) ==
    IF chan = None
    THEN IF me.kind = "log" /\ me.gc < LOGSTREAM_ATTEMPTS
         THEN \* time.sleep(2) and the next attempt
              [me EXCEPT !.pc = "get_server", !.chan = None]
         ELSE [me EXCEPT !.pc = "done", !.chan = None, !.status = "NOT_FOUND"]
    ELSE IF me.kind = "unary"
    THEN \* getattr(stub, method)(request, metadata=[("client_id", client_id)])
         [me EXCEPT !.pc = "done", !.chan = chan, !.resp = "backend",
                    !.sent = [chan |-> chan, method |-> BackendMethod(me.req.method),
                              request |-> me.req, client_id |-> me.cid]]
    ELSE \* thread.start(); stub.Datapath / stub.Logstream(iter(queue.get, None),
         \* metadata=[("client_id", client_id)])
         [me EXCEPT !.pc = "relay", !.chan = chan,
                    !.sent = [chan |-> chan,
                              method |-> IF me.kind = "data" THEN "Datapath"
                                         ELSE "Logstream",
                              request |-> NoReq, client_id |-> me.cid]]

\* Mutant: a lookup that finds no record takes a port for the client.
GetServerAllocates(t) ==
    /\ th[t].pc = "get_server"
    /\ server_lock = Unlocked
    /\ LET server == DictGet(servers, th[t].cid)
           me == [th[t] EXCEPT !.gc = @ + 1, !.server = server]
       IN  /\ th' = [th EXCEPT ![t] = IF server = None
                                      THEN AfterGetChannel(me, None)
                                      ELSE [me EXCEPT !.pc = "wait_ready"]]
           /\ free_ports' = IF server = None /\ free_ports # <<>>
                            THEN Tail(free_ports) ELSE free_ports
    /\ UNCHANGED <<servers, server_lock, records, nrec, streams, reaper, hook>>

\* _get_server_for_client, under the lock; None ends get_channel.
GetServer(t) ==
    /\ th[t].pc = "get_server"
    /\ server_lock = Unlocked
    /\ LET server == DictGet(servers, th[t].cid)
           me == [th[t] EXCEPT !.gc = @ + 1, !.server = server]
       IN  th' = [th EXCEPT ![t] = IF server = None
                                   THEN AfterGetChannel(me, None)
                                   ELSE [me EXCEPT !.pc = "wait_ready"]]
    /\ UNCHANGED <<mgr, streams, reaper, hook>>

\* Mutant: get_channel does not wait for the future.
WaitReadyNoBlock(t, ready) ==
    /\ th[t].pc = "wait_ready"
    /\ ready => records[th[t].server].proc = "server"
    /\ LET me == AfterGetChannel(th[t], IF ready THEN th[t].server ELSE None)
       IN  /\ th' = [th EXCEPT ![t] = me]
           /\ fwd_thread' = IF me.pc = "relay"
                            THEN [fwd_thread EXCEPT ![t] = "running"]
                            ELSE fwd_thread
    /\ UNCHANGED <<mgr, request_iterator, queue, backend_in, backend_eof, reaper, hook>>

\* server.wait_ready() blocks on the future; then the channel becomes ready
\* within CHECK_CHANNEL_TIMEOUT_S (only a running server listens) or not.
WaitReady(t, ready) ==
    /\ th[t].pc = "wait_ready"
    /\ records[th[t].server].future = "set"
    /\ ready => records[th[t].server].proc = "server"
    /\ LET me == AfterGetChannel(th[t], IF ready THEN th[t].server ELSE None)
       IN  /\ th' = [th EXCEPT ![t] = me]
           /\ fwd_thread' = IF me.pc = "relay"
                            THEN [fwd_thread EXCEPT ![t] = "running"]
                            ELSE fwd_thread
    /\ UNCHANGED <<mgr, request_iterator, queue, backend_in, backend_eof, reaper, hook>>

\* ------------------------------------------------------ unary driver RPCs
\* Mutant: ClusterInfo hands a PING to _call_inner_function like the rest.
UnaryBeginNoPing(t, md, request) ==
    /\ th[t].pc = "idle"
    /\ th' = [th EXCEPT ![t] = [th[t] EXCEPT !.kind = "unary", !.req = request,
                                            !.cid = get_client_id_from_context(md),
                                            !.pc = "get_server",
                                            !.status = client_id_status(md)]]
    /\ UNCHANGED <<mgr, streams, reaper, hook>>

\* A servicer method of RayletServicerProxy, up to get_channel.
UnaryBegin(t, md, request) ==
    /\ th[t].pc = "idle"
    /\ LET me == [th[t] EXCEPT !.kind = "unary", !.req = request,
                               !.cid = get_client_id_from_context(md)]
       IN  IF request.method = "ClusterInfo" /\ request.type = "PING"
           THEN \* ClusterInfoResponse(json=json.dumps({}))
                th' = [th EXCEPT ![t] = [me EXCEPT !.pc = "done", !.resp = "{}"]]
           ELSE th' = [th EXCEPT ![t] = [me EXCEPT !.pc = "get_server",
                                                   !.status = client_id_status(md)]]
    /\ UNCHANGED <<mgr, streams, reaper, hook>>

\* ------------------------------------------------------------ Logstream
\* Logstream up to its first get_channel.
LogstreamBegin(t, md, msgs) ==
    /\ th[t].pc = "idle"
    /\ LET client_id == get_client_id_from_context(md)
           me == [th[t] EXCEPT !.kind = "log", !.cid = client_id,
                               !.input = msgs, !.status = client_id_status(md)]
       IN  th' = [th EXCEPT ![t] = [me EXCEPT !.pc = IF client_id = "" THEN "done"
                                                    ELSE "get_server"]]
    /\ request_iterator' = [request_iterator EXCEPT ![t] = msgs]
    /\ UNCHANGED <<mgr, queue, backend_in, backend_eof, fwd_thread, reaper, hook>>

\* --------------------------------------------------- the stream splice
\* Mutant: the forwarder puts its message at the head of the queue.
ForwardFirst(t) ==
    /\ fwd_thread[t] = "running"
    /\ request_iterator[t] # <<>>
    /\ queue' = [queue EXCEPT ![t] = <<Head(request_iterator[t])>> \o @]
    /\ request_iterator' = [request_iterator EXCEPT ![t] = Tail(@)]
    /\ UNCHANGED <<mgr, th, backend_in, backend_eof, fwd_thread, reaper, hook>>

\* forward_streaming_requests: one message from the inbound iterator.
Forward(t) ==
    /\ fwd_thread[t] = "running"
    /\ request_iterator[t] # <<>>
    /\ queue' = [queue EXCEPT ![t] = Append(@, Head(request_iterator[t]))]
    /\ request_iterator' = [request_iterator EXCEPT ![t] = Tail(@)]
    /\ UNCHANGED <<mgr, th, backend_in, backend_eof, fwd_thread, reaper, hook>>

\* The inbound iterator is exhausted: the finally clause puts the sentinel.
ForwardEnd(t) ==
    /\ fwd_thread[t] = "running"
    /\ request_iterator[t] = <<>>
    /\ queue' = [queue EXCEPT ![t] = Append(@, Sentinel)]
    /\ fwd_thread' = [fwd_thread EXCEPT ![t] = "done"]
    /\ UNCHANGED <<mgr, th, request_iterator, backend_in, backend_eof, reaper, hook>>

\* Mutant: the sentinel is put after the loop, not in a finally clause.
ForwardErrorNoSentinel(t) ==
    /\ fwd_thread[t] = "running"
    /\ fwd_thread' = [fwd_thread EXCEPT ![t] = "error"]
    /\ request_iterator' = [request_iterator EXCEPT ![t] = <<>>]
    /\ UNCHANGED <<mgr, th, queue, backend_in, backend_eof, reaper, hook>>

\* The inbound iterator raises grpc.RpcError: caught, then the sentinel.
ForwardError(t) ==
    /\ fwd_thread[t] = "running"
    /\ queue' = [queue EXCEPT ![t] = Append(@, Sentinel)]
    /\ fwd_thread' = [fwd_thread EXCEPT ![t] = "error"]
    /\ request_iterator' = [request_iterator EXCEPT ![t] = <<>>]
    /\ UNCHANGED <<mgr, th, backend_in, backend_eof, reaper, hook>>

\* The backend stub takes the next item of iter(queue.get, None); the
\* sentinel ends its request stream.
BackendRead(t) ==
    /\ th[t].pc = "relay"
    /\ ~backend_eof[t]
    /\ queue[t] # <<>>
    /\ queue' = [queue EXCEPT ![t] = Tail(@)]
    /\ IF Head(queue[t]) = Sentinel
       THEN /\ backend_eof' = [backend_eof EXCEPT ![t] = TRUE]
            /\ UNCHANGED backend_in
       ELSE /\ backend_in' = [backend_in EXCEPT ![t] = Append(@, Head(queue[t]))]
            /\ UNCHANGED backend_eof
    /\ UNCHANGED <<mgr, th, request_iterator, fwd_thread, reaper, hook>>

\* The backend's response stream ends (or fails): the relay loop is left
\* and the forwarder joined for at most a second.
StreamEnd(t) ==
    /\ th[t].pc = "relay"
    /\ th' = [th EXCEPT ![t].pc = "done"]
    /\ UNCHANGED <<mgr, streams, reaper, hook>>

\* The call is over: the worker goes back to the pool.
Return(t) ==
    /\ th[t].pc = "done"
    /\ fwd_thread[t] \in {"none", "done", "error"}
    /\ th' = [th EXCEPT ![t] = IdleThread]
    /\ request_iterator' = [request_iterator EXCEPT ![t] = <<>>]
    /\ queue' = [queue EXCEPT ![t] = <<>>]
    /\ backend_in' = [backend_in EXCEPT ![t] = <<>>]
    /\ backend_eof' = [backend_eof EXCEPT ![t] = FALSE]
    /\ fwd_thread' = [fwd_thread EXCEPT ![t] = "none"]
    /\ UNCHANGED <<mgr, reaper, hook>>

\* ------------------------------------------------------ specifications
Manager(t) ==
    \/ \E busy \in SUBSET PortRange : StartAcquirePort(t, busy)
    \/ StartInstall(t)
    \/ StartSpawn(t)
    \/ StartSpawnFails(t)
    \/ StartPoll(t)
    \/ StartReturn(t)
    \/ GetServer(t)
    \/ \E ready \in BOOLEAN : WaitReady(t, ready)

Splice(t) ==
    \/ Forward(t)
    \/ ForwardEnd(t)
    \/ ForwardError(t)
    \/ BackendRead(t)

Environment ==
    \/ \E r \in RecordIds : ChildExec(r)
    \/ \E r \in RecordIds : ChildExit(r)
    \/ CheckAcquire
    \/ CheckResume

\* The worker pool hands out its threads in order.
NextWorker(t) == \A u \in Threads : u < t => th[u].pc # "idle"

\* The manager under concurrent data streams, up to the opening of the
\* backend stream.
Next ==
    \/ \E t \in Threads, md \in ValidMetadata, msgs \in HandshakeInputs :
          NextWorker(t) /\ DatapathBegin(t, md, msgs)
    \/ \E t \in Threads : Manager(t)
    \/ \E t \in Threads : StreamEnd(t)
    \/ \E t \in Threads : Return(t)
    \/ Environment

Spec == Init /\ [][Next]_vars

\* One data stream, spliced to its backend.
NextStream ==
    \/ \E md \in Metadata, msgs \in StreamInputs : DatapathBegin(1, md, msgs)
    \/ \E t \in Threads : Manager(t)
    \/ \E t \in Threads : Splice(t)
    \/ \E t \in Threads : StreamEnd(t)
    \/ Environment

SpecStream == Init /\ [][NextStream]_vars

\* The inbound log streams: numbered messages.
LogInputs == {StreamOf(DataMsg(1), 1)}

\* Unary driver RPCs and log streams beside one data stream.
NextUnary ==
    \/ \E md \in ValidMetadata, msgs \in HandshakeInputs :
          DatapathBegin(1, md, msgs)
    \/ \E t \in Threads \ {1}, md \in Metadata, request \in Requests :
          (\A u \in Threads \ {1} : u < t => th[u].pc # "idle")
          /\ UnaryBegin(t, md, request)
    \/ \E t \in Threads \ {1}, md \in Metadata, msgs \in LogInputs :
          (\A u \in Threads \ {1} : u < t => th[u].pc # "idle")
          /\ LogstreamBegin(t, md, msgs)
    \/ \E t \in Threads : Manager(t)
    \/ \E t \in Threads : StreamEnd(t)
    \/ Environment

SpecUnary == Init /\ [][NextUnary]_vars

\* The proxy up to its exit: data streams, then the atexit hook.
Running == exit_pc = "running"

NextExit ==
    \/ \E t \in Threads, md \in ValidMetadata, msgs \in HandshakeInputs :
          Running /\ NextWorker(t) /\ DatapathBegin(t, md, msgs)
    \/ \E t \in Threads : Running /\ Manager(t)
    \/ Running /\ Environment
    \/ \E caught \in BOOLEAN : Cleanup(caught)

SpecExit == Init /\ [][NextExit]_vars

\* The manager with its threads scheduled fairly: the reaper wakes up and
\* goes on when it can, a servicer thread inside start_specific_server
\* takes its next step when it can.  Nothing is assumed of the children.
NextReap ==
    \/ \E t \in Threads, md \in ValidMetadata, msgs \in HandshakeInputs :
          NextWorker(t) /\ DatapathBegin(t, md, msgs)
    \/ \E t \in Threads : Manager(t)
    \/ \E t \in Threads : StreamEnd(t)
    \/ Environment

Fairness ==
    /\ WF_vars(CheckAcquire)
    /\ WF_vars(CheckResume)
    /\ \A t \in Threads :
          /\ WF_vars(StartInstall(t))
          /\ WF_vars(StartSpawn(t) \/ StartSpawnFails(t))
          /\ WF_vars(StartPoll(t))
          /\ WF_vars(StartReturn(t))

SpecReap == Init /\ [][NextReap]_vars /\ Fairness

\* ================================================================ claims
IsPrefix(a, b) == Len(a) <= Len(b) /\ SubSeq(b, 1, Len(a)) = a
InMap == {servers[i].rid : i \in 1 .. Len(servers)}
FreeSet == SeqToSet(free_ports)
DataDone(t) == th[t].kind = "data" /\ th[t].pc = "done"
UnaryDone(t) == th[t].kind = "unary" /\ th[t].pc = "done"
PingRequest == [method |-> "ClusterInfo", type |-> "PING"]

\* C1: port conservation.  Whenever the manager lock is not held, the number
\* of free ports plus the number of records in the map is the size of the
\* port range, also after a start_backend for an id that is still in the map.
C1_PortConservation ==
    server_lock = Unlocked =>
        Len(free_ports) + Len(servers) = MAX_SPECIFIC_SERVER_PORT - MIN_SPECIFIC_SERVER_PORT

\* C2: port exclusivity.  No two records in the map share a port, no port of
\* a record in the map is in the free pool, and the pool holds no port twice.
C2_PortExclusivity ==
    /\ \A i, j \in 1 .. Len(servers) :
          i # j => records[servers[i].rid].port # records[servers[j].rid].port
    /\ \A r \in InMap : records[r].port \notin FreeSet
    /\ \A i, j \in 1 .. Len(free_ports) : i # j => free_ports[i] # free_ports[j]
    /\ \A r \in InMap : records[r].port \in PortRange
    /\ FreeSet \subseteq PortRange

\* Two records in the map, one of them on a port that an earlier, reaped
\* record held.
C2_Witness ==
    /\ Len(servers) = 2
    /\ \E r \in InMap, q \in 1 .. nrec :
          q \notin InMap /\ records[q].port = records[r].port

\* C3: a unary RPC other than a PING whose metadata has no client_id, or an
\* empty one, ends with status InvalidArgument, forwards nothing and creates
\* no record.
C3_MissingClientId ==
    \A t \in Threads :
        UnaryDone(t) /\ th[t].cid = "" /\ th[t].req # PingRequest =>
            /\ th[t].status = "INVALID_ARGUMENT"
            /\ th[t].sent = NoCall
            /\ "" \notin Keys(servers)

\* The data stream of thread t as the backend is to see it.
Expected(t) == <<prepare_runtime_init_req(Head(th[t].input)).req>> \o Tail(th[t].input)

\* C4: first-message ordering.  What the backend has read of a data stream
\* is always a prefix of [rewrite(m0), m1, ...], the queue holds the next
\* messages in order, and once the backend has read the sentinel of a stream
\* that ended without error it has read exactly that sequence.
C4_FirstMessageOrdering ==
    \A t \in Threads :
        th[t].kind = "data" /\ th[t].pc \in {"relay", "done"} /\ th[t].sent # NoCall =>
            /\ IsPrefix(backend_in[t], Expected(t))
            /\ IsPrefix(backend_in[t] \o SelectSeq(queue[t], LAMBDA m : m # Sentinel),
                        Expected(t))
            /\ backend_eof[t] /\ fwd_thread[t] = "done" => backend_in[t] = Expected(t)

\* The backend has read a whole stream of MaxMsgs messages whose first
\* message the rewrite changed.
C4_Witness ==
    \E t \in Threads :
        /\ backend_eof[t] /\ fwd_thread[t] = "done"
        /\ Len(backend_in[t]) = MaxMsgs
        /\ backend_in[t][1] # th[t].input[1]
        /\ backend_in[t] = Expected(t)

\* C5: no RPC goes out on a record's channel before that record's future is
\* resolved.  get_channel gives None when the map has no record for the id,
\* and a channel only of a record whose future is resolved; every call
\* forwarded went out on the channel get_channel returned.
C5_ChannelAfterFuture ==
    \A t \in Threads :
        /\ th[t].chan # None =>
              /\ records[th[t].chan].future = "set"
              /\ th[t].chan = th[t].server
              /\ th[t].gc >= 1
        /\ th[t].sent # NoCall => th[t].sent.chan = th[t].chan /\ th[t].chan # None
        /\ th[t].gc >= 1 /\ th[t].server = None =>
              /\ th[t].chan = None /\ th[t].sent = NoCall
              /\ th[t].pc \in {"done", "get_server"}

\* A unary call forwarded on the channel on which the data stream of the
\* same client is being relayed.
C5_Witness ==
    \E t, u \in Threads :
        /\ UnaryDone(t) /\ th[t].sent # NoCall
        /\ th[u].kind = "data" /\ th[u].pc = "relay"
        /\ th[t].sent.chan = th[u].sent.chan

\* C6: every driver RPC of the method table, when the client's channel is
\* ready, goes to the backend method of the same name, with the request
\* unchanged and the caller's client_id as metadata.
C6_SameMethod ==
    \A t \in Threads :
        th[t].kind = "unary" /\ th[t].sent # NoCall =>
            /\ th[t].sent.method = th[t].req.method
            /\ th[t].sent.request = th[t].req
            /\ th[t].sent.client_id = th[t].cid

\* C7: ping locality.  A PING ClusterInfo is answered in one step with the
\* empty JSON object, in whatever state the proxy is: it never reaches
\* get_channel, never waits for the lock or a future, forwards nothing.
C7_PingLocality ==
    \A t \in Threads :
        /\ th[t].req = PingRequest =>
              /\ th[t].pc = "done"
              /\ th[t].resp = "{}"
              /\ th[t].status = "OK"
              /\ th[t].gc = 0
              /\ th[t].server = None /\ th[t].chan = None
              /\ th[t].sent = NoCall
        /\ th[t].pc = "idle" =>
              \A md \in Metadata : ENABLED UnaryBegin(t, md, PingRequest)

\* A PING without client_id answered while the reaper holds the lock
\* and the map has no record for the (empty) id.
C7_Witness ==
    \E t \in Threads :
        /\ th[t].req = PingRequest /\ th[t].pc = "done" /\ th[t].cid = ""
        /\ server_lock = CheckThread

\* Nothing of the stream of thread t has gone towards a backend.
NothingForwarded(t) ==
    /\ fwd_thread[t] = "none"
    /\ th[t].sent = NoCall
    /\ backend_in[t] = <<>>
    /\ queue[t] = <<prepare_runtime_init_req(Head(th[t].input)).req>>

\* C8: a data stream whose start_backend returned false ends Aborted, one
\* whose start_backend returned true and whose get_channel returned None ends
\* NotFound; in both no forwarder is started, no backend stream opened and no
\* message reaches a backend.
C8_StartupAndChannelFailure ==
    \A t \in Threads :
        /\ th[t].kind = "data" /\ th[t].ret = "False" =>
              th[t].pc = "done" /\ th[t].status = "ABORTED" /\ NothingForwarded(t)
        /\ DataDone(t) /\ th[t].ret = "True" /\ th[t].chan = None =>
              th[t].status = "NOT_FOUND" /\ NothingForwarded(t)
        /\ th[t].kind = "data" /\ th[t].pc \in {"get_server", "wait_ready"} =>
              NothingForwarded(t)

\* One stream ended Aborted and another NotFound after a successful start.
C8_Witness ==
    \E t, u \in Threads :
        /\ DataDone(t) /\ th[t].ret = "False" /\ th[t].status = "ABORTED"
        /\ DataDone(u) /\ th[u].ret = "True" /\ th[u].status = "NOT_FOUND"

\* C9: backend startup failure, by the child exiting before the fence or by
\* the launch handler failing, ends the data stream Aborted and leaves the
\* record in the map for the reaper, which is never stopped by it.
C9_StartupFailureAborted ==
    \A t \in Threads :
        DataDone(t) /\ (th[t].ret = "False" \/ th[t].error = "LaunchError") =>
            /\ th[t].status = "ABORTED"
            /\ records[th[t].mine].future = "set"

LogStream(t) == th[t].kind = "log" /\ th[t].cid # ""

\* C11: log stream bounded retry.  A Logstream with a client_id calls
\* get_channel at most five times; once a call has returned a channel there
\* is no further call and the stream is spliced to the backend's Logstream
\* on that channel; a stream that ends without a channel made five calls,
\* has status NotFound and forwarded nothing.
C11_LogstreamBoundedRetry ==
    /\ [](\A t \in Threads :
             LogStream(t) =>
                 /\ th[t].gc <= LOGSTREAM_ATTEMPTS
                 /\ th[t].chan # None =>
                       /\ th[t].pc \in {"relay", "done"}
                       /\ th[t].gc >= 1
                       /\ th[t].sent = [chan |-> th[t].chan, method |-> "Logstream",
                                        request |-> NoReq, client_id |-> th[t].cid]
                       /\ fwd_thread[t] # "none"
                 /\ th[t].chan = None =>
                       /\ th[t].sent = NoCall
                       /\ fwd_thread[t] = "none"
                       /\ queue[t] = <<>> /\ backend_in[t] = <<>>
                       /\ request_iterator[t] = th[t].input
                       /\ th[t].pc \in {"get_server", "wait_ready", "done"}
                       /\ th[t].pc = "done" =>
                             /\ th[t].gc = LOGSTREAM_ATTEMPTS
                             /\ th[t].status = "NOT_FOUND")
    /\ [][\A t \in Threads :
             LogStream(t) /\ th[t].chan # None =>
                 th'[t].gc = th[t].gc /\ th'[t].chan = th[t].chan]_vars

\* A log stream spliced by its fifth get_channel, after four that gave None.
C11_Witness ==
    \E t \in Threads :
        /\ LogStream(t) /\ th[t].pc = "relay"
        /\ th[t].gc = LOGSTREAM_ATTEMPTS

\* decode(C) of the handshake: the empty byte string stands for the default.
Decode(C) == IF C = 0 THEN DefaultJobConfig ELSE pickle_loads(C)

\* C12: handshake rewrite.  For a first message of variant init with
\* encoded job_config C, the message enqueued for the backend has
\* job_config = encode(env_prep(decode(C))) and every other field, those of
\* the init sub-message included, as in the inbound message; the job config
\* handed to start_backend is env_prep(decode(C)).
C12_HandshakeRewrite ==
    \A t \in Threads :
        th[t].kind = "data" /\ th[t].pc = "start_lock" =>
            LET m0 == Head(th[t].input)
                job_config == ray_client_server_env_prep(Decode(m0.job_config))
            IN  /\ queue[t] = <<[m0 EXCEPT !.job_config = pickle_dumps(job_config)]>>
                /\ th[t].job_config = job_config

\* C13: only the data stream provisions backends.  Every step of a unary
\* driver RPC, of a Logstream and of get_channel (whoever calls it) leaves
\* the record map, the free pool and the SpecificServer objects as they
\* are and spawns no child, whether the client_id is in the map or not.
C13_OnlyDataProvisions ==
    [][\A t \in Threads :
          /\ th'[t] # th[t]
          /\ \/ th'[t].kind \in {"unary", "log"}
             \/ th[t].pc \in {"get_server", "wait_ready"}
          => /\ servers' = servers
             /\ free_ports' = free_ports
             /\ records' = records
             /\ nrec' = nrec]_vars

\* A unary RPC or log stream for a client_id that is not in the map ended
\* NotFound while the map holds another client's record.
C13_Witness ==
    \E t \in Threads :
        /\ th[t].kind \in {"unary", "log"} /\ th[t].pc = "done"
        /\ th[t].cid \in ClientIds \ Keys(servers)
        /\ th[t].status = "NOT_FOUND"
        /\ servers # <<>> /\ Len(servers) = nrec
        /\ Len(free_ports) = NumPorts - 1

\* C14: no thread blocks on an unresolved process_future while it holds the
\* manager lock: the reaper skips a record whose future is unresolved, so
\* the lock is free to the lookups and starts of other clients while a
\* backend is spawning or polling the fence.
C14_NoBlockingUnderLock ==
    /\ ~(/\ server_lock = CheckThread
         /\ check_list # <<>>
         /\ records[Head(check_list).rid].future = "unset")
    /\ \A t \in Threads :
          th[t].pc \in {"spawn", "poll"} => server_lock # CheckThread

\* C15: reaping liveness.  With the reaper scheduled fairly, every record in
\* the map whose future is resolved and whose child has exited is
\* eventually out of the map with its port in the free pool, whatever
\* other records, starting ones included, the map holds.
C15_ReapingLiveness ==
    \A r \in RecordIds :
        (r \in InMap /\ records[r].future = "set" /\ records[r].proc = "exited")
            ~> (r \notin InMap /\ records[r].port \in FreeSet)

\* C16: the reaper removes only dead backends.  A step of the reaper takes
\* out of the map only records whose child has exited, appending their
\* ports to the pool; the records of running children stay in the map, in
\* place, with port, future and channel unchanged; no record is added or
\* replaced, and no SpecificServer object is changed.
C16_ReaperRemovesOnlyDead ==
    [][(CheckAcquire \/ CheckResume) =>
          LET before == SeqToSet(servers)
              after == SeqToSet(servers')
              removed == before \ after
          IN  /\ records' = records /\ nrec' = nrec
              /\ after \subseteq before
              /\ \A i, j \in 1 .. Len(servers') :
                    i < j => \E k, l \in 1 .. Len(servers) :
                                k < l /\ servers[k] = servers'[i] /\ servers[l] = servers'[j]
              /\ \A e \in removed :
                    records[e.rid].proc = "exited" /\ records[e.rid].future = "set"
              /\ \A e \in before : records[e.rid].proc # "exited" => e \in after
              /\ IsPrefix(free_ports, free_ports')
              /\ Len(free_ports') = Len(free_ports) + Cardinality(removed)
              /\ SeqToSet(free_ports') = FreeSet \cup {records[e.rid].port : e \in removed}]_vars

\* After a sweep: a reaped record, dead and out of the map, whose port is
\* the last of the pool, and in the map a resolved record whose child runs.
C16_Witness ==
    /\ check_pc = "sleep" /\ server_lock = Unlocked
    /\ \E q \in (1 .. nrec) \ InMap :
          /\ records[q].proc = "exited" /\ records[q].future = "set"
          /\ free_ports # <<>> /\ free_ports[Len(free_ports)] = records[q].port
    /\ \E r \in InMap : records[r].proc = "server" /\ records[r].future = "set"

Enqueued(t) ==
    backend_in[t] \o (IF backend_eof[t] THEN <<Sentinel>> ELSE <<>>) \o queue[t]

\* What the forwarder of stream t has put on the queue, and the inbound
\* stream handed to it: Datapath has consumed and enqueued the first message.
Forwarded(t) == IF th[t].kind = "data" THEN Tail(Enqueued(t)) ELSE Enqueued(t)
ForwarderInput(t) == IF th[t].kind = "data" THEN Tail(th[t].input) ELSE th[t].input

\* C18: forwarder termination.  While it runs the forwarder has put the
\* messages it consumed, in order, and no sentinel; when the inbound stream
\* ended it has put all of them and then one sentinel; when the stream
\* raised after k messages, those k and then one sentinel; nothing is put
\* after the sentinel, and the reader of the queue never waits on an empty
\* queue once the forwarder is over.
C18_ForwarderTermination ==
    /\ [](\A t \in Threads :
             /\ fwd_thread[t] = "running" =>
                   /\ Forwarded(t) \o request_iterator[t] = ForwarderInput(t)
                   /\ \A i \in 1 .. Len(Forwarded(t)) : Forwarded(t)[i] # Sentinel
             /\ fwd_thread[t] = "done" =>
                   Forwarded(t) = Append(ForwarderInput(t), Sentinel)
             /\ fwd_thread[t] = "error" =>
                   \E k \in 0 .. Len(ForwarderInput(t)) :
                       Forwarded(t) = Append(SubSeq(ForwarderInput(t), 1, k), Sentinel)
             /\ fwd_thread[t] \in {"done", "error"} /\ th[t].pc = "relay" /\ ~backend_eof[t] =>
                   ENABLED BackendRead(t))
    /\ [][\A t \in Threads :
             fwd_thread[t] \in {"done", "error"} =>
                 /\ Enqueued(t)' = Enqueued(t)
                 /\ fwd_thread'[t] = fwd_thread[t]]_vars

\* The inbound stream raised before its last message was consumed: the
\* backend read the first message, then the sentinel, and the queue is empty.
C18_Witness ==
    \E t \in Threads :
        /\ fwd_thread[t] = "error" /\ backend_eof[t] /\ queue[t] = <<>>
        /\ Len(backend_in[t]) < Len(th[t].input)
        /\ Len(th[t].input) = MaxMsgs

\* C19: teardown.  When the shutdown hook has run, every child the proxy
\* spawned whose future is resolved has been sent a kill (or had exited
\* already), whatever the order of the records in the map, whatever
\* records are still unresolved, and also when its record was replaced by
\* a later start_backend for the same client id.
C19_TeardownKillsAll ==
    exit_pc # "running" =>
        \A r \in 1 .. nrec :
            records[r].future = "set" =>
                r \in killed \/ records[r].proc = "exited"

\* The data stream of thread t has provisioned nothing, and nothing else has.
Unprovisioned(t) ==
    /\ th[t].pc = "done"
    /\ th[t].num_ports = None /\ th[t].port = None /\ th[t].mine = None
    /\ th[t].ret = "none" /\ th[t].gc = 0 /\ th[t].sent = NoCall
    /\ queue[t] = <<>> /\ fwd_thread[t] = "none" /\ backend_in[t] = <<>>
    /\ free_ports = [i \in 1 .. NumPorts |-> MIN_SPECIFIC_SERVER_PORT + i - 1]
    /\ servers = <<>> /\ nrec = 0
    /\ \A r \in RecordIds : records[r] = NoRecord

\* C20: a data stream provisions nothing before a valid handshake.  With
\* an empty client_id the stream is closed with no inbound message
\* consumed; with a first message that is not of variant init it is ended
\* by the assertion, that message consumed; in both no port leaves the
\* pool, no record is installed or replaced and no child is spawned.
C20_NothingBeforeHandshake ==
    \A t \in Threads :
        th[t].kind = "data" =>
            /\ th[t].cid = "" =>
                  /\ Unprovisioned(t)
                  /\ request_iterator[t] = th[t].input
                  /\ th[t].error = "none"
            /\ th[t].cid # "" /\ Head(th[t].input).type # "init" =>
                  /\ Unprovisioned(t)
                  /\ request_iterator[t] = Tail(th[t].input)
                  /\ th[t].error = "AssertionError"

\* A stream with a client_id and MaxMsgs messages, the first not of
\* variant init, ended by the assertion with that message alone consumed.
C20_Witness ==
    \E t \in Threads :
        /\ th[t].kind = "data" /\ th[t].cid \in ClientIds
        /\ th[t].error = "AssertionError"
        /\ Len(th[t].input) = MaxMsgs /\ Len(request_iterator[t]) = MaxMsgs - 1

====
